---- MODULE Spec2Model ----
(***************************************************************************)
(* The C-RW-WP reader-writer lock of src/rwlock.c, one lock instance       *)
(* shared by NThreads threads.  Every atomic access of the C code (a       *)
(* fetch-add, a load, a compare-and-swap) is one step of the thread that   *)
(* performs it; thread-local computation is folded into the atomic access  *)
(* that precedes it, and the invocation of an operation into its first     *)
(* atomic access.  All accesses are taken in one total order (sequential   *)
(* consistency), except in SpecAcqRel, where every location keeps the      *)
(* history of its writes and a thread reads what its view allows.          *)
(***************************************************************************)
EXTENDS Integers, FiniteSets, Sequences, TLC

VARIABLES
    readers_ingress,    \* rwlock.h:28
    readers_egress,     \* rwlock.h:30
    writers_barrier,    \* rwlock.h:32
    writers_lock,       \* rwlock.h:34
    pc,                 \* per thread: the atomic access it performs next
    cnt,                \* per thread: rwlock_rdlock's local cnt
    barrier_raised,     \* per thread: rwlock_rdlock's local barrier_raised
    egress_seen,        \* per thread: what the first load of read_indicator_isempty read
    held,               \* per thread: what its caller holds ("none", "read", "write")
    via,                \* per thread: the operation that granted what it holds
    rolled_back,        \* per thread: how try_upgrade last reported busy since the read lock was taken
                        \* ("no"; "refused": barrier or compare-and-swap; "undone": depart and re-arrive)
    solo,               \* history: the thread whose running try call no other thread has interleaved (0: none)
    snap,               \* history: the four fields when solo's call began
    owed,               \* history: per wrlock call, the starved readers it found on invocation
    in_use,             \* history: per destroy call, whether the lock was locked or non-empty when it began
    counter_mod,        \* the modulus of the two counters (0: none, arrivals are capped by MaxIngress)
    tally,              \* history: per call in progress, what it has added to each counter and how often
                        \* rdlock's check has rejected it (NoTally: not kept)
    ingress_first,      \* the build evaluates the right operand of read_indicator_isempty's == first
    mem,                \* release/acquire memory: per location, its writes in modification order
                        \* (NoMem: not kept, the four fields above are the memory)
    view                \* release/acquire memory: per thread and location, the latest write it knows of

shared == <<readers_ingress, readers_egress, writers_barrier, writers_lock>>
locals == <<cnt, barrier_raised, egress_seen>>
caller == <<held, via, rolled_back>>
history == <<solo, snap, owed>>
vars == <<readers_ingress, readers_egress, writers_barrier, writers_lock, pc,
          cnt, barrier_raised, egress_seen, held, via, rolled_back, solo, snap, owed,
          in_use, counter_mod, tally, ingress_first, mem, view>>

(* Bounds of the model. *)
NThreads == 2
MaxIngress == 4
\* The patience threshold is a build parameter (#ifndef, default 500); the
\* model instantiates it small so that a reader can run out of patience.
RWLOCK_MAX_READER_PATIENCE == 1
\* A spinning reader polls at most this many times beyond the threshold.
ExtraSpin == 2
\* The modulus of the counters where they wrap.
CounterWrap == 3
\* The rejections of one rdlock call that the tally follows; a call rejected
\* more often goes on untallied.
MaxTally == 2
\* The writes a location of the release/acquire memory takes after rwlock_init.
MaxWrites == 2

Threads == 1..NThreads
\* One thread more, for the specification in which a third thread passes by.
Crowd == 1..(NThreads + 1)

RWLOCK_UNLOCKED == FALSE
RWLOCK_LOCKED == TRUE

NoSnap == <<>>
NoTally == <<>>
NoMem == <<>>
Untallied == [arrived |-> -1, departed |-> -1, rejected |-> -1]
NothingYet == [arrived |-> 0, departed |-> 0, rejected |-> 0]
LockState == <<readers_ingress, readers_egress, writers_barrier, writers_lock>>

RdlockPcs == {"rd_arrive", "rd_check", "rd_depart", "rd_spin", "rd_raise", "rd_lower"}
TryrdlockPcs == {"trd_check", "trd_depart"}
TryupgradePcs == {"tu_cas", "tu_depart", "tu_load_egress", "tu_load_ingress",
                  "tu_arrive", "tu_release"}
WrlockPcs == {"wr_barrier", "wr_cas", "wr_load_egress", "wr_load_ingress"}
TrywrlockPcs == {"tw_cas", "tw_load_egress", "tw_load_ingress", "tw_release"}
DowngradePcs == {"dg_release"}

\* The four fields are the memory: every load reads the latest write.
SeqCst == mem = NoMem /\ view = NoMem

\* The state after rwlock_init, no thread of S in a call.
FreshAmong(S) ==
    /\ readers_ingress = 0
    /\ readers_egress = 0
    /\ writers_barrier = 0
    /\ writers_lock = RWLOCK_UNLOCKED
    /\ pc = [t \in S |-> "idle"]
    /\ cnt = [t \in S |-> 0]
    /\ barrier_raised = [t \in S |-> FALSE]
    /\ egress_seen = [t \in S |-> 0]
    /\ held = [t \in S |-> "none"]
    /\ via = [t \in S |-> "none"]
    /\ rolled_back = [t \in S |-> "no"]
    /\ solo = 0
    /\ snap = NoSnap
    /\ owed = [t \in S |-> {}]
    /\ in_use = [t \in S |-> "n/a"]

Fresh == FreshAmong(Threads)

Init ==
    /\ Fresh
    /\ counter_mod = 0
    /\ tally = NoTally
    /\ ingress_first = FALSE
    /\ SeqCst

(***************************************************************************)
(* The atomic primitives.                                                  *)
(***************************************************************************)
\* The counters are atomic_uint_fast32_t and wrap at 2^32 or later.  With
\* counter_mod = 0 the model admits at most MaxIngress arrivals, so no counter
\* reaches its wrap; with counter_mod > 0 the counters wrap at counter_mod, a
\* scaled-down width under which no arrival is ever refused.
read_indicator_arrive ==
    IF counter_mod = 0
    THEN /\ readers_ingress < MaxIngress
         /\ readers_ingress' = readers_ingress + 1
    ELSE readers_ingress' = (readers_ingress + 1) % counter_mod

\* Mutant: a depart that adds 2.
read_indicator_depart_twice ==
    IF counter_mod = 0
    THEN readers_egress' = readers_egress + 2
    ELSE readers_egress' = (readers_egress + 2) % counter_mod

read_indicator_depart ==
    IF counter_mod = 0
    THEN readers_egress' = readers_egress + 1
    ELSE readers_egress' = (readers_egress + 1) % counter_mod

\* Mutant: the emptiness test written with <= in place of ==.
read_indicator_isempty_le(egress, ingress) == egress <= ingress

\* The comparison of read_indicator_isempty, on the two values it loaded.
\* Its two loads are two steps.  C does not fix the order in which the
\* operands of == are evaluated: a build takes them in the order the source
\* writes them, readers_egress first and readers_ingress second, or the
\* other way round (ingress_first).  The exclusion properties rest on the
\* order of the source, which every specification but SpecOperands fixes.
read_indicator_isempty(egress, ingress) == egress = ingress

\* The counter that the first, the second load of read_indicator_isempty reads.
first_loaded == IF ingress_first THEN readers_ingress ELSE readers_egress
second_loaded == IF ingress_first THEN readers_egress ELSE readers_ingress

writers_barrier_raise == writers_barrier' = writers_barrier + 1

\* Mutant: the lower adds in place of subtracting.
writers_barrier_lower_adds == writers_barrier' = writers_barrier + 1

writers_barrier_lower == writers_barrier' = writers_barrier - 1

\* Mutant: the barrier is never seen raised.
writers_barrier_israised_never == writers_barrier > MaxIngress + NThreads

\* Mutant: the barrier counts as raised only from 2 on.
writers_barrier_israised_above_one == writers_barrier > 1

writers_barrier_israised == writers_barrier > 0

\* Mutant: the flag compared with the wrong constant.
writers_lock_islocked_inverted == writers_lock = RWLOCK_UNLOCKED

writers_lock_islocked == writers_lock = RWLOCK_LOCKED

\* Mutant: an unconditional exchange in place of the compare-and-swap.
writers_lock_acquire_blind(done) ==
    IF done
    THEN writers_lock' = RWLOCK_LOCKED
    ELSE writers_lock' = writers_lock

\* A weak compare-and-swap UNLOCKED -> LOCKED: done says whether it stored.
\* It may fail although the flag is clear; it stores only if the flag is clear.
writers_lock_acquire(done) ==
    IF done
    THEN writers_lock = RWLOCK_UNLOCKED /\ writers_lock' = RWLOCK_LOCKED
    ELSE writers_lock' = writers_lock

\* A strong compare-and-swap LOCKED -> UNLOCKED; assert(done).
writers_lock_release ==
    /\ writers_lock = RWLOCK_LOCKED
    /\ writers_lock' = RWLOCK_UNLOCKED

(***************************************************************************)
(* Bookkeeping of a step of thread t.                                      *)
(***************************************************************************)
\* begins: the step invokes try_rdlock, try_wrlock or destroy; returns: the
\* step returns from t's call.
Track(t, begins, returns) ==
    /\ solo' = IF returns THEN 0
               ELSE IF begins \/ solo = t THEN t
               ELSE 0
    /\ snap' = IF solo' = 0 THEN NoSnap
               ELSE IF begins THEN LockState
               ELSE snap
    /\ UNCHANGED <<counter_mod, ingress_first, mem, view>>
    /\ IF tally = NoTally THEN UNCHANGED tally ELSE TRUE

Observe(t, begins, returns) ==
    /\ Track(t, begins, returns)
    /\ UNCHANGED in_use

\* The readers inside rdlock that have raised the barrier.
Starved == {r \in DOMAIN pc : pc[r] \in RdlockPcs /\ barrier_raised[r]}

\* t's call returns; its caller now holds h, granted by operation op.
Return(t, h, op) ==
    /\ pc' = [pc EXCEPT ![t] = "idle"]
    /\ cnt' = [cnt EXCEPT ![t] = 0]
    /\ barrier_raised' = [barrier_raised EXCEPT ![t] = FALSE]
    /\ egress_seen' = [egress_seen EXCEPT ![t] = 0]
    /\ held' = [held EXCEPT ![t] = h]
    /\ via' = [via EXCEPT ![t] = op]

Goto(t, label) ==
    /\ pc' = [pc EXCEPT ![t] = label]
    /\ UNCHANGED <<held, via>>

(***************************************************************************)
(* rwlock_rdlock                                                           *)
(***************************************************************************)
rdlock_arrive(t) ==
    /\ \/ pc[t] = "idle" /\ held[t] = "none"
       \/ pc[t] = "rd_arrive"
    /\ read_indicator_arrive
    /\ Goto(t, "rd_check")
    /\ Observe(t, FALSE, FALSE)
    /\ UNCHANGED <<readers_egress, writers_barrier, writers_lock, locals, rolled_back, owed>>

rdlock_check(t) ==
    /\ pc[t] = "rd_check"
    /\ IF writers_lock_islocked
       THEN Goto(t, "rd_depart") /\ UNCHANGED <<locals, owed>>
            /\ Observe(t, FALSE, FALSE)
       ELSE IF barrier_raised[t]
       THEN Goto(t, "rd_lower") /\ UNCHANGED <<locals, owed>>
            /\ Observe(t, FALSE, FALSE)
       ELSE /\ Return(t, "read", "rdlock")
            /\ owed' = [w \in DOMAIN owed |-> owed[w] \ {t}]
            /\ Observe(t, FALSE, TRUE)
    /\ UNCHANGED <<shared, rolled_back>>

\* Mutant: the rejected reader waits without retracting its arrival.
rdlock_depart_forgotten(t) ==
    /\ pc[t] = "rd_depart"
    /\ Goto(t, "rd_spin")
    /\ Observe(t, FALSE, FALSE)
    /\ UNCHANGED <<shared, locals, rolled_back, owed>>

rdlock_depart(t) ==
    /\ pc[t] = "rd_depart"
    /\ read_indicator_depart
    /\ Goto(t, "rd_spin")
    /\ Observe(t, FALSE, FALSE)
    /\ UNCHANGED <<readers_ingress, writers_barrier, writers_lock, locals, rolled_back, owed>>

\* Mutant: the rejected reader arrives again without waiting for the flag.
rdlock_spin_skipped(t) ==
    /\ pc[t] = "rd_spin"
    /\ Goto(t, "rd_arrive")
    /\ Observe(t, FALSE, FALSE)
    /\ UNCHANGED <<shared, locals, rolled_back, owed>>

\* Mutant: the test of barrier_raised left out of the patience check.
rdlock_spin_reraises(t) ==
    /\ pc[t] = "rd_spin"
    /\ IF writers_lock_islocked
       THEN /\ cnt[t] < RWLOCK_MAX_READER_PATIENCE + ExtraSpin
            /\ cnt' = [cnt EXCEPT ![t] = cnt[t] + 1]
            /\ IF cnt[t] >= RWLOCK_MAX_READER_PATIENCE
               THEN Goto(t, "rd_raise")
               ELSE Goto(t, "rd_spin")
       ELSE Goto(t, "rd_arrive") /\ UNCHANGED cnt
    /\ Observe(t, FALSE, FALSE)
    /\ UNCHANGED <<shared, barrier_raised, egress_seen, rolled_back, owed>>

\* Mutant: the counter is incremented before it is compared
\* (ran_out_of_patience(++cnt)), so the barrier is raised one poll early.
rdlock_spin_impatient(t) ==
    /\ pc[t] = "rd_spin"
    /\ IF writers_lock_islocked
       THEN /\ cnt[t] < RWLOCK_MAX_READER_PATIENCE + ExtraSpin
            /\ cnt' = [cnt EXCEPT ![t] = cnt[t] + 1]
            /\ IF cnt[t] + 1 >= RWLOCK_MAX_READER_PATIENCE /\ ~barrier_raised[t]
               THEN Goto(t, "rd_raise")
               ELSE Goto(t, "rd_spin")
       ELSE Goto(t, "rd_arrive") /\ UNCHANGED cnt
    /\ Observe(t, FALSE, FALSE)
    /\ UNCHANGED <<shared, barrier_raised, egress_seen, rolled_back, owed>>

rdlock_spin(t) ==
    /\ pc[t] = "rd_spin"
    /\ IF writers_lock_islocked
       THEN /\ cnt[t] < RWLOCK_MAX_READER_PATIENCE + ExtraSpin
            /\ cnt' = [cnt EXCEPT ![t] = cnt[t] + 1]
            /\ IF cnt[t] >= RWLOCK_MAX_READER_PATIENCE /\ ~barrier_raised[t]
               THEN Goto(t, "rd_raise")
               ELSE Goto(t, "rd_spin")
       ELSE Goto(t, "rd_arrive") /\ UNCHANGED cnt
    /\ Observe(t, FALSE, FALSE)
    /\ UNCHANGED <<shared, barrier_raised, egress_seen, rolled_back, owed>>

rdlock_raise(t) ==
    /\ pc[t] = "rd_raise"
    /\ writers_barrier_raise
    /\ barrier_raised' = [barrier_raised EXCEPT ![t] = TRUE]
    /\ Goto(t, "rd_spin")
    /\ Observe(t, FALSE, FALSE)
    /\ UNCHANGED <<readers_ingress, readers_egress, writers_lock, cnt, egress_seen,
                   rolled_back, owed>>

rdlock_lower(t) ==
    /\ pc[t] = "rd_lower"
    /\ writers_barrier_lower
    /\ Return(t, "read", "rdlock")
    /\ owed' = [w \in DOMAIN owed |-> owed[w] \ {t}]
    /\ Observe(t, FALSE, TRUE)
    /\ UNCHANGED <<readers_ingress, readers_egress, writers_lock, rolled_back>>

rwlock_rdlock(t) ==
    \/ rdlock_arrive(t)
    \/ rdlock_check(t)
    \/ rdlock_depart(t)
    \/ rdlock_spin(t)
    \/ rdlock_raise(t)
    \/ rdlock_lower(t)

(***************************************************************************)
(* rwlock_rdunlock                                                         *)
(***************************************************************************)
rwlock_rdunlock(t) ==
    /\ pc[t] = "idle" /\ held[t] = "read"
    /\ read_indicator_depart
    /\ Return(t, "none", "none")
    /\ rolled_back' = [rolled_back EXCEPT ![t] = "no"]
    /\ Observe(t, FALSE, TRUE)
    /\ UNCHANGED <<readers_ingress, writers_barrier, writers_lock, owed>>

(***************************************************************************)
(* rwlock_tryrdlock                                                        *)
(***************************************************************************)
tryrdlock_arrive(t) ==
    /\ pc[t] = "idle" /\ held[t] = "none"
    /\ read_indicator_arrive
    /\ Goto(t, "trd_check")
    /\ Observe(t, TRUE, FALSE)
    /\ UNCHANGED <<readers_egress, writers_barrier, writers_lock, locals, rolled_back, owed>>

tryrdlock_check(t) ==
    /\ pc[t] = "trd_check"
    /\ IF writers_lock_islocked
       THEN Goto(t, "trd_depart") /\ UNCHANGED locals
            /\ Observe(t, FALSE, FALSE)
       ELSE Return(t, "read", "tryrdlock")
            /\ Observe(t, FALSE, TRUE)
    /\ UNCHANGED <<shared, rolled_back, owed>>

\* Returns EBUSY.
\* Mutant: the retracted try_rdlock reports success.
tryrdlock_depart_granted(t) ==
    /\ pc[t] = "trd_depart"
    /\ read_indicator_depart
    /\ Return(t, "read", "tryrdlock")
    /\ Observe(t, FALSE, TRUE)
    /\ UNCHANGED <<readers_ingress, writers_barrier, writers_lock, rolled_back, owed>>

tryrdlock_depart(t) ==
    /\ pc[t] = "trd_depart"
    /\ read_indicator_depart
    /\ Return(t, "none", "none")
    /\ Observe(t, FALSE, TRUE)
    /\ UNCHANGED <<readers_ingress, writers_barrier, writers_lock, rolled_back, owed>>

rwlock_tryrdlock(t) ==
    \/ tryrdlock_arrive(t)
    \/ tryrdlock_check(t)
    \/ tryrdlock_depart(t)

(***************************************************************************)
(* rwlock_tryupgrade, called by a thread that holds the read lock.  A call *)
(* that returns EBUSY leaves its caller holding the read lock.             *)
(***************************************************************************)
Busy(t, how) ==
    /\ Return(t, "read", via[t])
    /\ rolled_back' = [rolled_back EXCEPT ![t] = how]

\* The barrier check of try_upgrade left out: the call goes on to its
\* compare-and-swap whatever writers_barrier holds.
tryupgrade_barrier_ignored(t) ==
    /\ pc[t] = "idle" /\ held[t] = "read"
    /\ Goto(t, "tu_cas") /\ UNCHANGED <<locals, rolled_back>>
    /\ Observe(t, FALSE, FALSE)
    /\ UNCHANGED <<shared, owed>>

tryupgrade_barrier(t) ==
    /\ pc[t] = "idle" /\ held[t] = "read"
    /\ IF writers_barrier_israised
       THEN Busy(t, "refused") /\ Observe(t, FALSE, TRUE)
       ELSE Goto(t, "tu_cas") /\ UNCHANGED <<locals, rolled_back>>
            /\ Observe(t, FALSE, FALSE)
    /\ UNCHANGED <<shared, owed>>

tryupgrade_cas(t) ==
    /\ pc[t] = "tu_cas"
    /\ \E done \in BOOLEAN :
        /\ writers_lock_acquire(done)
        /\ IF done
           THEN Goto(t, "tu_depart") /\ UNCHANGED <<locals, rolled_back>>
                /\ Observe(t, FALSE, FALSE)
           ELSE Busy(t, "refused") /\ Observe(t, FALSE, TRUE)
    /\ UNCHANGED <<readers_ingress, readers_egress, writers_barrier, owed>>

tryupgrade_depart(t) ==
    /\ pc[t] = "tu_depart"
    /\ read_indicator_depart
    /\ Goto(t, "tu_load_egress")
    /\ Observe(t, FALSE, FALSE)
    /\ UNCHANGED <<readers_ingress, writers_barrier, writers_lock, locals, rolled_back, owed>>

tryupgrade_load_egress(t) ==
    /\ pc[t] = "tu_load_egress"
    /\ egress_seen' = [egress_seen EXCEPT ![t] = first_loaded]
    /\ Goto(t, "tu_load_ingress")
    /\ Observe(t, FALSE, FALSE)
    /\ UNCHANGED <<shared, cnt, barrier_raised, rolled_back, owed>>

\* Mutant: the upgrade succeeds without testing the read indicator.
tryupgrade_load_ingress_unchecked(t) ==
    /\ pc[t] = "tu_load_ingress"
    /\ Return(t, "write", "tryupgrade")
    /\ rolled_back' = [rolled_back EXCEPT ![t] = "no"]
    /\ Observe(t, FALSE, TRUE)
    /\ UNCHANGED <<shared, owed>>

tryupgrade_load_ingress(t) ==
    /\ pc[t] = "tu_load_ingress"
    /\ IF read_indicator_isempty(egress_seen[t], second_loaded)
       THEN /\ Return(t, "write", "tryupgrade")
            /\ rolled_back' = [rolled_back EXCEPT ![t] = "no"]
            /\ Observe(t, FALSE, TRUE)
       ELSE /\ Goto(t, "tu_arrive")
            /\ egress_seen' = [egress_seen EXCEPT ![t] = 0]
            /\ UNCHANGED <<cnt, barrier_raised, rolled_back>>
            /\ Observe(t, FALSE, FALSE)
    /\ UNCHANGED <<shared, owed>>

\* Mutant: the rollback does not post the arrival again.
tryupgrade_arrive_forgotten(t) ==
    /\ pc[t] = "tu_arrive"
    /\ Goto(t, "tu_release")
    /\ Observe(t, FALSE, FALSE)
    /\ UNCHANGED <<shared, locals, rolled_back, owed>>

tryupgrade_arrive(t) ==
    /\ pc[t] = "tu_arrive"
    /\ read_indicator_arrive
    /\ Goto(t, "tu_release")
    /\ Observe(t, FALSE, FALSE)
    /\ UNCHANGED <<readers_egress, writers_barrier, writers_lock, locals, rolled_back, owed>>

tryupgrade_release(t) ==
    /\ pc[t] = "tu_release"
    /\ writers_lock_release
    /\ Busy(t, "undone")
    /\ Observe(t, FALSE, TRUE)
    /\ UNCHANGED <<readers_ingress, readers_egress, writers_barrier, owed>>

\* Mutant: the roll-back gives the flag back before it re-arrives.
rwlock_tryupgrade_release_first(t) ==
    \/ tryupgrade_barrier(t)
    \/ tryupgrade_cas(t)
    \/ tryupgrade_depart(t)
    \/ tryupgrade_load_egress(t)
    \/ tryupgrade_load_ingress(t)
    \/ /\ pc[t] = "tu_arrive"
       /\ writers_lock_release
       /\ Goto(t, "tu_release")
       /\ Observe(t, FALSE, FALSE)
       /\ UNCHANGED <<readers_ingress, readers_egress, writers_barrier, locals,
                      rolled_back, owed>>
    \/ /\ pc[t] = "tu_release"
       /\ read_indicator_arrive
       /\ Busy(t, "undone")
       /\ Observe(t, FALSE, TRUE)
       /\ UNCHANGED <<readers_egress, writers_barrier, writers_lock, owed>>

rwlock_tryupgrade(t) ==
    \/ tryupgrade_barrier(t)
    \/ tryupgrade_cas(t)
    \/ tryupgrade_depart(t)
    \/ tryupgrade_load_egress(t)
    \/ tryupgrade_load_ingress(t)
    \/ tryupgrade_arrive(t)
    \/ tryupgrade_release(t)

(***************************************************************************)
(* rwlock_wrlock, with read_indicator_wait_until_empty                     *)
(***************************************************************************)
\* Mutant: the barrier tested once (if) in place of waited for (while).
wrlock_barrier_once(t) ==
    /\ pc[t] = "idle" /\ held[t] = "none"
    /\ Goto(t, "wr_cas")
    /\ owed' = [owed EXCEPT ![t] = Starved]
    /\ Observe(t, FALSE, FALSE)
    /\ UNCHANGED <<shared, locals, rolled_back>>

wrlock_barrier(t) ==
    /\ \/ pc[t] = "idle" /\ held[t] = "none"
       \/ pc[t] = "wr_barrier"
    /\ IF writers_barrier_israised
       THEN Goto(t, "wr_barrier")
       ELSE Goto(t, "wr_cas")
    /\ owed' = IF pc[t] = "idle" THEN [owed EXCEPT ![t] = Starved] ELSE owed
    /\ Observe(t, FALSE, FALSE)
    /\ UNCHANGED <<shared, locals, rolled_back>>

wrlock_cas(t) ==
    /\ pc[t] = "wr_cas"
    /\ \E done \in BOOLEAN :
        /\ writers_lock_acquire(done)
        /\ IF done
           THEN Goto(t, "wr_load_egress") /\ owed' = [owed EXCEPT ![t] = {}]
           ELSE Goto(t, "wr_cas") /\ UNCHANGED owed
    /\ Observe(t, FALSE, FALSE)
    /\ UNCHANGED <<readers_ingress, readers_egress, writers_barrier, locals, rolled_back>>

wait_until_empty_load_egress(t) ==
    /\ pc[t] = "wr_load_egress"
    /\ egress_seen' = [egress_seen EXCEPT ![t] = first_loaded]
    /\ Goto(t, "wr_load_ingress")
    /\ Observe(t, FALSE, FALSE)
    /\ UNCHANGED <<shared, cnt, barrier_raised, rolled_back, owed>>

wait_until_empty_load_ingress(t) ==
    /\ pc[t] = "wr_load_ingress"
    /\ IF read_indicator_isempty(egress_seen[t], second_loaded)
       THEN Return(t, "write", "wrlock")
            /\ Observe(t, FALSE, TRUE)
       ELSE /\ Goto(t, "wr_load_egress")
            /\ egress_seen' = [egress_seen EXCEPT ![t] = 0]
            /\ UNCHANGED <<cnt, barrier_raised>>
            /\ Observe(t, FALSE, FALSE)
    /\ UNCHANGED <<shared, rolled_back, owed>>

rwlock_wrlock(t) ==
    \/ wrlock_barrier(t)
    \/ wrlock_cas(t)
    \/ wait_until_empty_load_egress(t)
    \/ wait_until_empty_load_ingress(t)

(***************************************************************************)
(* rwlock_wrunlock, called by the thread that holds the write lock         *)
(***************************************************************************)
\* Mutant: wrunlock also takes back one raise of the barrier.
rwlock_wrunlock_lowers(t) ==
    /\ pc[t] = "idle" /\ held[t] = "write"
    /\ writers_lock_release
    /\ writers_barrier' = IF writers_barrier > 0 THEN writers_barrier - 1 ELSE 0
    /\ Return(t, "none", "none")
    /\ Observe(t, FALSE, TRUE)
    /\ UNCHANGED <<readers_ingress, readers_egress, rolled_back, owed>>

rwlock_wrunlock(t) ==
    /\ pc[t] = "idle" /\ held[t] = "write"
    /\ writers_lock_release
    /\ Return(t, "none", "none")
    /\ Observe(t, FALSE, TRUE)
    /\ UNCHANGED <<readers_ingress, readers_egress, writers_barrier, rolled_back, owed>>

(***************************************************************************)
(* rwlock_trywrlock                                                        *)
(***************************************************************************)
trywrlock_barrier(t) ==
    /\ pc[t] = "idle" /\ held[t] = "none"
    /\ IF writers_barrier_israised
       THEN Return(t, "none", "none") /\ Observe(t, TRUE, TRUE)
       ELSE Goto(t, "tw_cas") /\ UNCHANGED locals
            /\ Observe(t, TRUE, FALSE)
    /\ UNCHANGED <<shared, rolled_back, owed>>

trywrlock_cas(t) ==
    /\ pc[t] = "tw_cas"
    /\ \E done \in BOOLEAN :
        /\ writers_lock_acquire(done)
        /\ IF done
           THEN Goto(t, "tw_load_egress") /\ UNCHANGED locals
                /\ Observe(t, FALSE, FALSE)
           ELSE Return(t, "none", "none") /\ Observe(t, FALSE, TRUE)
    /\ UNCHANGED <<readers_ingress, readers_egress, writers_barrier, rolled_back, owed>>

trywrlock_load_egress(t) ==
    /\ pc[t] = "tw_load_egress"
    /\ egress_seen' = [egress_seen EXCEPT ![t] = first_loaded]
    /\ Goto(t, "tw_load_ingress")
    /\ Observe(t, FALSE, FALSE)
    /\ UNCHANGED <<shared, cnt, barrier_raised, rolled_back, owed>>

\* Mutant: try_wrlock waits for the readers as wrlock does.
trywrlock_load_ingress_waits(t) ==
    /\ pc[t] = "tw_load_ingress"
    /\ IF read_indicator_isempty(egress_seen[t], second_loaded)
       THEN Return(t, "write", "trywrlock")
            /\ Observe(t, FALSE, TRUE)
       ELSE /\ Goto(t, "tw_load_egress")
            /\ egress_seen' = [egress_seen EXCEPT ![t] = 0]
            /\ UNCHANGED <<cnt, barrier_raised>>
            /\ Observe(t, FALSE, FALSE)
    /\ UNCHANGED <<shared, rolled_back, owed>>

trywrlock_load_ingress(t) ==
    /\ pc[t] = "tw_load_ingress"
    /\ IF read_indicator_isempty(egress_seen[t], second_loaded)
       THEN Return(t, "write", "trywrlock")
            /\ Observe(t, FALSE, TRUE)
       ELSE /\ Goto(t, "tw_release")
            /\ egress_seen' = [egress_seen EXCEPT ![t] = 0]
            /\ UNCHANGED <<cnt, barrier_raised>>
            /\ Observe(t, FALSE, FALSE)
    /\ UNCHANGED <<shared, rolled_back, owed>>

\* Mutant: busy reported without releasing the flag.
trywrlock_release_forgotten(t) ==
    /\ pc[t] = "tw_release"
    /\ Return(t, "none", "none")
    /\ Observe(t, FALSE, TRUE)
    /\ UNCHANGED <<shared, rolled_back, owed>>

\* Returns EBUSY.
trywrlock_release(t) ==
    /\ pc[t] = "tw_release"
    /\ writers_lock_release
    /\ Return(t, "none", "none")
    /\ Observe(t, FALSE, TRUE)
    /\ UNCHANGED <<readers_ingress, readers_egress, writers_barrier, rolled_back, owed>>

rwlock_trywrlock(t) ==
    \/ trywrlock_barrier(t)
    \/ trywrlock_cas(t)
    \/ trywrlock_load_egress(t)
    \/ trywrlock_load_ingress(t)
    \/ trywrlock_release(t)

(***************************************************************************)
(* rwlock_downgrade, called by the thread that holds the write lock        *)
(***************************************************************************)
\* Mutant: the arrival of the downgraded reader left out.
downgrade_arrive_forgotten(t) ==
    /\ pc[t] = "idle" /\ held[t] = "write"
    /\ Goto(t, "dg_release")
    /\ Observe(t, FALSE, FALSE)
    /\ UNCHANGED <<shared, locals, rolled_back, owed>>

downgrade_arrive(t) ==
    /\ pc[t] = "idle" /\ held[t] = "write"
    /\ read_indicator_arrive
    /\ Goto(t, "dg_release")
    /\ Observe(t, FALSE, FALSE)
    /\ UNCHANGED <<readers_egress, writers_barrier, writers_lock, locals, rolled_back, owed>>

downgrade_release(t) ==
    /\ pc[t] = "dg_release"
    /\ writers_lock_release
    /\ Return(t, "read", "downgrade")
    /\ Observe(t, FALSE, TRUE)
    /\ UNCHANGED <<readers_ingress, readers_egress, writers_barrier, rolled_back, owed>>

\* Mutant: the exclusive flag released before the arrival is posted.
rwlock_downgrade_release_first(t) ==
    \/ /\ pc[t] = "idle" /\ held[t] = "write"
       /\ writers_lock_release
       /\ Goto(t, "dg_release")
       /\ Observe(t, FALSE, FALSE)
       /\ UNCHANGED <<readers_ingress, readers_egress, writers_barrier, locals,
                      rolled_back, owed>>
    \/ /\ pc[t] = "dg_release"
       /\ read_indicator_arrive
       /\ Return(t, "read", "downgrade")
       /\ Observe(t, FALSE, TRUE)
       /\ UNCHANGED <<readers_egress, writers_barrier, writers_lock, rolled_back, owed>>

rwlock_downgrade(t) ==
    \/ downgrade_arrive(t)
    \/ downgrade_release(t)

Next ==
    \E t \in Threads :
        \/ rwlock_rdlock(t)
        \/ rwlock_tryrdlock(t)
        \/ rwlock_rdunlock(t)
        \/ rwlock_tryupgrade(t)
        \/ rwlock_wrlock(t)
        \/ rwlock_wrunlock(t)
        \/ rwlock_trywrlock(t)
        \/ rwlock_downgrade(t)

Spec == Init /\ [][Next]_vars

(***************************************************************************)
(* The contract checks: a failed assert aborts the process, rwlock_destroy *)
(* ends the lock's life.  Either halts every thread.                       *)
(***************************************************************************)
Aborted == {"abort_wrunlock", "abort_release", "abort_destroy"}
Halted == Aborted \cup {"destroyed"}
DestroyPcs == {"ds_load_egress", "ds_load_ingress"}

Running == \A t \in Threads : pc[t] \notin Halted

\* t stops at label; nothing else changes.
Halt(t, label) ==
    /\ Goto(t, label)
    /\ Track(t, FALSE, TRUE)
    /\ UNCHANGED <<shared, locals, rolled_back, owed>>

\* Mutant: the assertion compiled out, a failed release returns.
wrunlock_misused_silent(t) ==
    /\ pc[t] = "idle"
    /\ held[t] # "write" \/ writers_lock = RWLOCK_UNLOCKED
    /\ writers_lock' = RWLOCK_UNLOCKED
    /\ Return(t, held[t], via[t])
    /\ Observe(t, FALSE, TRUE)
    /\ UNCHANGED <<readers_ingress, readers_egress, writers_barrier, rolled_back, owed>>

\* rwlock_wrunlock called against its contract: by a thread that does not
\* hold the write lock, or after another thread's wrunlock cleared the flag.
\* The compare-and-swap stores if the flag is set, whoever set it; otherwise
\* assert(done) fails.
wrunlock_misused(t) ==
    /\ pc[t] = "idle"
    /\ held[t] # "write" \/ writers_lock = RWLOCK_UNLOCKED
    /\ IF writers_lock = RWLOCK_LOCKED
       THEN /\ writers_lock_release
            /\ Return(t, held[t], via[t])
            /\ Observe(t, FALSE, TRUE)
            /\ UNCHANGED <<readers_ingress, readers_egress, writers_barrier,
                           rolled_back, owed>>
       ELSE /\ Halt(t, "abort_wrunlock")
            /\ UNCHANGED in_use

\* The release inside try_upgrade, try_wrlock or downgrade finds the flag
\* cleared by another thread's wrunlock: assert(done) fails.
release_asserts(t) ==
    /\ pc[t] \in {"tu_release", "tw_release", "dg_release"}
    /\ writers_lock = RWLOCK_UNLOCKED
    /\ Halt(t, "abort_release")
    /\ UNCHANGED in_use

destroy_load_lock(t) ==
    /\ pc[t] = "idle"
    /\ in_use' = [in_use EXCEPT ![t] =
                     IF writers_lock = RWLOCK_LOCKED \/ readers_ingress # readers_egress
                     THEN "yes" ELSE "no"]
    /\ IF writers_lock = RWLOCK_UNLOCKED
       THEN Goto(t, "ds_load_egress")
       ELSE Goto(t, "abort_destroy")
    /\ Track(t, TRUE, writers_lock # RWLOCK_UNLOCKED)
    /\ UNCHANGED <<shared, locals, rolled_back, owed>>

destroy_load_egress(t) ==
    /\ pc[t] = "ds_load_egress"
    /\ egress_seen' = [egress_seen EXCEPT ![t] = first_loaded]
    /\ Goto(t, "ds_load_ingress")
    /\ Observe(t, FALSE, FALSE)
    /\ UNCHANGED <<shared, cnt, barrier_raised, rolled_back, owed>>

\* Mutant: the second assertion left out.
destroy_load_ingress_unchecked(t) ==
    /\ pc[t] = "ds_load_ingress"
    /\ Goto(t, "destroyed")
    /\ Observe(t, FALSE, TRUE)
    /\ UNCHANGED <<shared, locals, rolled_back, owed>>

destroy_load_ingress(t) ==
    /\ pc[t] = "ds_load_ingress"
    /\ IF read_indicator_isempty(egress_seen[t], second_loaded)
       THEN Goto(t, "destroyed")
       ELSE Goto(t, "abort_destroy")
    /\ Observe(t, FALSE, TRUE)
    /\ UNCHANGED <<shared, locals, rolled_back, owed>>

rwlock_destroy(t) ==
    \/ destroy_load_lock(t)
    \/ destroy_load_egress(t)
    \/ destroy_load_ingress(t)

\* Every operation, called within its contract or against it.
NextContract ==
    \E t \in Threads :
        \/ Running /\ rwlock_rdlock(t)
        \/ Running /\ rwlock_tryrdlock(t)
        \/ Running /\ rwlock_rdunlock(t)
        \/ Running /\ rwlock_tryupgrade(t)
        \/ Running /\ rwlock_wrlock(t)
        \/ Running /\ rwlock_wrunlock(t)
        \/ Running /\ rwlock_trywrlock(t)
        \/ Running /\ rwlock_downgrade(t)
        \/ Running /\ wrunlock_misused(t)
        \/ Running /\ release_asserts(t)
        \/ Running /\ rwlock_destroy(t)

SpecContract == Init /\ [][NextContract]_vars

(***************************************************************************)
(* One thread alone: thread 1 calls the operations within their contract,  *)
(* one after the other, and destroys the lock when it holds nothing.  The  *)
(* steps listed are those a thread alone can take; C13 states that the     *)
(* steps left out (a retraction, a spin, a roll-back) are never due.       *)
(***************************************************************************)
NextSingle ==
    \E t \in {1} :
        \/ Running /\ rdlock_arrive(t)
        \/ Running /\ rdlock_check(t)
        \/ Running /\ rwlock_rdunlock(t)
        \/ Running /\ tryrdlock_arrive(t)
        \/ Running /\ tryrdlock_check(t)
        \/ Running /\ tryupgrade_barrier(t)
        \/ Running /\ tryupgrade_cas(t)
        \/ Running /\ tryupgrade_depart(t)
        \/ Running /\ tryupgrade_load_egress(t)
        \/ Running /\ tryupgrade_load_ingress(t)
        \/ Running /\ wrlock_barrier(t)
        \/ Running /\ wrlock_cas(t)
        \/ Running /\ wait_until_empty_load_egress(t)
        \/ Running /\ wait_until_empty_load_ingress(t)
        \/ Running /\ rwlock_wrunlock(t)
        \/ Running /\ trywrlock_barrier(t)
        \/ Running /\ trywrlock_cas(t)
        \/ Running /\ trywrlock_load_egress(t)
        \/ Running /\ trywrlock_load_ingress(t)
        \/ Running /\ rwlock_downgrade(t)
        \/ Running /\ held[t] = "none" /\ rwlock_destroy(t)

SpecSingle == Init /\ [][NextSingle]_vars

(***************************************************************************)
(* Progress.  The threads are preemptively scheduled operating-system      *)
(* threads: a thread that is inside a call, or holds a lock it has to give *)
(* back, and whose next step stays possible, eventually takes it (weak     *)
(* fairness).  Nothing makes an idle thread that holds nothing call again. *)
(* The counters wrap at CounterWrap, so that no arrival is refused and the *)
(* states of a lock in endless use recur.                                  *)
(***************************************************************************)
InitWrap ==
    /\ Fresh
    /\ counter_mod = CounterWrap
    /\ tally = NoTally
    /\ ingress_first = FALSE
    /\ SeqCst

\* A step of t that is not the invocation of a lock operation by a thread
\* that holds nothing.
Engaged(t) == pc[t] # "idle" \/ held[t] # "none"

\* The threads use rdlock/rdunlock and wrlock/wrunlock in matched pairs.
StepRW(t) ==
    \/ rwlock_rdlock(t)
    \/ rwlock_rdunlock(t)
    \/ rwlock_wrlock(t)
    \/ rwlock_wrunlock(t)

NextRW == \E t \in Threads : StepRW(t)

SpecFairRW ==
    /\ InitWrap
    /\ [][NextRW]_vars
    /\ \A t \in Threads : WF_vars(Engaged(t) /\ StepRW(t))

\* The same, with try_rdlock.
StepRWTry(t) ==
    \/ StepRW(t)
    \/ rwlock_tryrdlock(t)

NextRWTry == \E t \in Threads : StepRWTry(t)

SpecFairRWTry ==
    /\ InitWrap
    /\ [][NextRWTry]_vars
    /\ \A t \in Threads : WF_vars(Engaged(t) /\ StepRWTry(t))

(***************************************************************************)
(* All operations on a lock whose counters wrap at CounterWrap.            *)
(***************************************************************************)
SpecModular == InitWrap /\ [][Next]_vars

(***************************************************************************)
(* All operations on a lock whose counters wrap at CounterWrap, with a     *)
(* tally of what each call in progress has added to the counters.          *)
(***************************************************************************)
InitTally ==
    /\ Fresh
    /\ counter_mod = CounterWrap
    /\ tally = [t \in Threads |-> NothingYet]
    /\ ingress_first = FALSE
    /\ SeqCst

\* What a step has added to a counter, in the counter's arithmetic.
Added(new, old) == (new - old) % counter_mod

\* The tally after a step of t: a returning call starts the next one afresh;
\* a rejection is rdlock's outer check finding the flag set.
Tally(t) ==
    tally' = [tally EXCEPT ![t] =
        IF pc'[t] = "idle" THEN NothingYet
        ELSE IF @ = Untallied THEN Untallied
        ELSE LET k == @.rejected +
                      (IF pc[t] = "rd_check" /\ writers_lock_islocked THEN 1 ELSE 0)
             IN  IF k > MaxTally THEN Untallied
                 ELSE [arrived  |-> @.arrived + Added(readers_ingress', readers_ingress),
                       departed |-> @.departed + Added(readers_egress', readers_egress),
                       rejected |-> k]]

NextWrap ==
    \E t \in Threads :
        \/ rwlock_rdlock(t) /\ Tally(t)
        \/ rwlock_tryrdlock(t) /\ Tally(t)
        \/ rwlock_rdunlock(t) /\ Tally(t)
        \/ rwlock_tryupgrade(t) /\ Tally(t)
        \/ rwlock_wrlock(t) /\ Tally(t)
        \/ rwlock_wrunlock(t) /\ Tally(t)
        \/ rwlock_trywrlock(t) /\ Tally(t)
        \/ rwlock_downgrade(t) /\ Tally(t)

SpecWrap == InitTally /\ [][NextWrap]_vars

(***************************************************************************)
(* All operations, called by one thread more, on a lock built with either  *)
(* order of the two loads of read_indicator_isempty.                       *)
(***************************************************************************)
InitOperands ==
    /\ FreshAmong(Crowd)
    /\ counter_mod = 0
    /\ tally = NoTally
    /\ ingress_first \in BOOLEAN
    /\ SeqCst

NextCrowd ==
    \E t \in Crowd :
        \/ rwlock_rdlock(t)
        \/ rwlock_tryrdlock(t)
        \/ rwlock_rdunlock(t)
        \/ rwlock_tryupgrade(t)
        \/ rwlock_wrlock(t)
        \/ rwlock_wrunlock(t)
        \/ rwlock_trywrlock(t)
        \/ rwlock_downgrade(t)

SpecOperands == InitOperands /\ [][NextCrowd]_vars

(***************************************************************************)
(* Release/acquire memory.  rdlock, rdunlock, wrlock and wrunlock on a     *)
(* memory that gives the accesses no more than the orderings the           *)
(* operations ask for: release for the fetch-adds, acquire for the loads,  *)
(* acquire-release for the compare-and-swaps.  A location is the sequence  *)
(* of the writes made to it (its modification order; a new write goes to   *)
(* the end); a write carries the view its writer released with it; a       *)
(* thread's view says, per location, the latest write it knows of.  A load *)
(* reads any write that is not older than the one the thread knows, and an *)
(* acquire load joins the view of the write it reads into the thread's; a  *)
(* read-modify-write reads the last write.  Every run of this memory is a  *)
(* run C11 allows for release/acquire atomics.  The data the lock protects *)
(* is one more location, written without ordering by whoever holds the     *)
(* lock.  No reader waits long enough to raise the barrier, so wrlock's    *)
(* load of writers_barrier reads 0 and is left out.                        *)
(***************************************************************************)
Locations == {"readers_ingress", "readers_egress", "writers_lock", "data"}

\* The view that knows the first write of every location.
Oldest == [x \in Locations |-> 1]

Join(v, w) == [x \in Locations |-> IF v[x] >= w[x] THEN v[x] ELSE w[x]]

Last(x) == mem[x][Len(mem[x])]

\* The memory after rwlock_init, which every thread has seen.
InitAcqRel ==
    /\ Fresh
    /\ counter_mod = 0
    /\ tally = NoTally
    /\ ingress_first = FALSE
    /\ mem = [x \in Locations |->
                <<[val |-> CASE x = "writers_lock" -> RWLOCK_UNLOCKED
                             [] x = "data" -> [by |-> 0, as |-> "none"]
                             [] OTHER -> 0,
                   view |-> Oldest]>>]
    /\ view = [t \in Threads |-> Oldest]

\* What the release/acquire operations leave alone.
unused == <<readers_ingress, readers_egress, writers_barrier, writers_lock, cnt,
            barrier_raised, via, rolled_back, solo, snap, owed, in_use,
            counter_mod, tally, ingress_first>>

\* t writes v to x, releasing the view known: the write is the last of x, t
\* knows it, and it carries t's view joined with carried (the view of the
\* write a read-modify-write has read and continues).
Store(t, x, v, known, carried) ==
    LET mine == [known EXCEPT ![x] = Len(mem[x]) + 1]
    IN  /\ Len(mem[x]) <= MaxWrites
        /\ mem' = [mem EXCEPT ![x] = Append(@, [val |-> v, view |-> Join(mine, carried)])]
        /\ view' = [view EXCEPT ![t] = mine]

\* atomic_fetch_add_release(x, 1): the read is relaxed, the write a release.
atomic_fetch_add_release(t, x) ==
    Store(t, x, Last(x).val + 1, view[t], Last(x).view)

\* atomic_load_acquire(x) reading the i-th write of x.
Readable(t, x) == view[t][x] .. Len(mem[x])

atomic_load_acquire(t, x, i) ==
    /\ view' = [view EXCEPT ![t] = Join([@ EXCEPT ![x] = i], mem[x][i].view)]
    /\ UNCHANGED mem

\* A successful compare-and-swap with acquire-release ordering.
atomic_compare_exchange_acq_rel(t, x, expected, desired) ==
    /\ Last(x).val = expected
    /\ Store(t, x, desired, Join(view[t], Last(x).view), Last(x).view)

weak_rdlock_arrive(t) ==
    /\ \/ pc[t] = "idle" /\ held[t] = "none"
       \/ pc[t] = "rd_arrive"
    /\ atomic_fetch_add_release(t, "readers_ingress")
    /\ Goto(t, "rd_check")
    /\ UNCHANGED <<egress_seen, unused>>

weak_rdlock_check(t) ==
    /\ pc[t] = "rd_check"
    /\ \E i \in Readable(t, "writers_lock") :
        /\ atomic_load_acquire(t, "writers_lock", i)
        /\ IF mem["writers_lock"][i].val = RWLOCK_LOCKED
           THEN Goto(t, "rd_depart")
           ELSE /\ pc' = [pc EXCEPT ![t] = "idle"]
                /\ held' = [held EXCEPT ![t] = "read"]
    /\ UNCHANGED <<egress_seen, unused>>

weak_rdlock_depart(t) ==
    /\ pc[t] = "rd_depart"
    /\ atomic_fetch_add_release(t, "readers_egress")
    /\ Goto(t, "rd_spin")
    /\ UNCHANGED <<egress_seen, unused>>

weak_rdlock_spin(t) ==
    /\ pc[t] = "rd_spin"
    /\ \E i \in Readable(t, "writers_lock") :
        /\ atomic_load_acquire(t, "writers_lock", i)
        /\ IF mem["writers_lock"][i].val = RWLOCK_LOCKED
           THEN Goto(t, "rd_spin")
           ELSE Goto(t, "rd_arrive")
    /\ UNCHANGED <<egress_seen, unused>>

weak_rdlock(t) ==
    \/ weak_rdlock_arrive(t)
    \/ weak_rdlock_check(t)
    \/ weak_rdlock_depart(t)
    \/ weak_rdlock_spin(t)

weak_rdunlock(t) ==
    /\ pc[t] = "idle" /\ held[t] = "read"
    /\ atomic_fetch_add_release(t, "readers_egress")
    /\ held' = [held EXCEPT ![t] = "none"]
    /\ UNCHANGED <<pc, egress_seen, unused>>

weak_wrlock_cas(t) ==
    /\ \/ pc[t] = "idle" /\ held[t] = "none"
       \/ pc[t] = "wr_cas"
    /\ \/ /\ atomic_compare_exchange_acq_rel(t, "writers_lock",
                                             RWLOCK_UNLOCKED, RWLOCK_LOCKED)
          /\ Goto(t, "wr_load_egress")
       \/ /\ pc[t] = "idle"
          /\ Goto(t, "wr_cas")
          /\ UNCHANGED <<mem, view>>
    /\ UNCHANGED <<egress_seen, unused>>

weak_wait_until_empty_load_egress(t) ==
    /\ pc[t] = "wr_load_egress"
    /\ \E i \in Readable(t, "readers_egress") :
        /\ atomic_load_acquire(t, "readers_egress", i)
        /\ egress_seen' = [egress_seen EXCEPT ![t] = mem["readers_egress"][i].val]
    /\ Goto(t, "wr_load_ingress")
    /\ UNCHANGED unused

weak_wait_until_empty_load_ingress(t) ==
    /\ pc[t] = "wr_load_ingress"
    /\ \E i \in Readable(t, "readers_ingress") :
        /\ atomic_load_acquire(t, "readers_ingress", i)
        /\ IF read_indicator_isempty(egress_seen[t], mem["readers_ingress"][i].val)
           THEN /\ pc' = [pc EXCEPT ![t] = "idle"]
                /\ held' = [held EXCEPT ![t] = "write"]
           ELSE Goto(t, "wr_load_egress")
    /\ egress_seen' = [egress_seen EXCEPT ![t] = 0]
    /\ UNCHANGED unused

weak_wrlock(t) ==
    \/ weak_wrlock_cas(t)
    \/ weak_wait_until_empty_load_egress(t)
    \/ weak_wait_until_empty_load_ingress(t)

weak_wrunlock(t) ==
    /\ pc[t] = "idle" /\ held[t] = "write"
    /\ atomic_compare_exchange_acq_rel(t, "writers_lock",
                                       RWLOCK_LOCKED, RWLOCK_UNLOCKED)
    /\ held' = [held EXCEPT ![t] = "none"]
    /\ UNCHANGED <<pc, egress_seen, unused>>

\* The holder of the lock writes the data the lock protects; the write says
\* who made it and holding what.
critical_section(t) ==
    /\ pc[t] = "idle" /\ held[t] # "none"
    /\ Last("data").val # [by |-> t, as |-> held[t]]
    /\ Store(t, "data", [by |-> t, as |-> held[t]], view[t], Oldest)
    /\ UNCHANGED <<pc, held, egress_seen, unused>>

NextAcqRel ==
    \E t \in Threads :
        \/ weak_rdlock(t)
        \/ weak_rdunlock(t)
        \/ weak_wrlock(t)
        \/ weak_wrunlock(t)
        \/ critical_section(t)

SpecAcqRel == InitAcqRel /\ [][NextAcqRel]_vars

(***************************************************************************)
(* The properties.                                                         *)
(***************************************************************************)
Others(t) == Threads \ {t}

\* C1: at most one thread at a time is between a successful return of a
\* write acquisition and its matching wrunlock.
C1_WriterMutualExclusion ==
    \A t \in Threads : \A u \in Others(t) :
        ~(held[t] = "write" /\ held[u] = "write")

\* A thread holds the write lock it got from try_wrlock while another
\* thread's wrlock is retrying its compare-and-swap.
C1_Witness ==
    \E t \in Threads : \E u \in Others(t) :
        held[t] = "write" /\ via[t] = "trywrlock" /\ pc[u] = "wr_cas"

\* C2: no thread holds the write lock (its acquisition has returned) while
\* another thread holds the read lock (its acquisition has returned, or it
\* has passed rdlock's check and is about to lower the barrier).
C2_ReaderWriterExclusion ==
    \A t \in Threads : \A u \in Others(t) :
        held[t] = "write" => held[u] /= "read" /\ pc[u] /= "rd_lower"

\* A writer holds the lock while a reader, rejected, spins in rdlock.
C2_Witness ==
    \E t \in Threads : \E u \in Others(t) :
        held[t] = "write" /\ via[t] = "wrlock" /\ pc[u] = "rd_spin"

\* C3: from the first step of downgrade until the caller's rdunlock no other
\* thread holds the write lock, and between the two steps of downgrade the
\* exclusive flag is set and the caller's arrival is counted.
Downgraded(t) ==
    \/ pc[t] = "dg_release"
    \/ held[t] = "read" /\ via[t] = "downgrade"

C3_DowngradeSafety ==
    \A t \in Threads :
        /\ Downgraded(t) => \A u \in Others(t) : held[u] /= "write"
        /\ pc[t] = "dg_release" =>
               writers_lock = RWLOCK_LOCKED /\ readers_ingress > readers_egress

\* A thread holds the read lock it got from downgrade while another thread's
\* wrlock has the flag and waits for the read indicator to drain.
C3_Witness ==
    \E t \in Threads : \E u \in Others(t) :
        /\ held[t] = "read" /\ via[t] = "downgrade" /\ pc[t] = "idle"
        /\ pc[u] = "wr_load_ingress"

\* Where a try_upgrade has released its slot of the read indicator and not
\* yet posted it again.
Departed == {"tu_load_egress", "tu_load_ingress", "tu_arrive"}

\* A step in which t's try_upgrade returns busy.
TryupgradeBusy(t) ==
    rwlock_tryupgrade(t) /\ pc'[t] = "idle" /\ held'[t] = "read"

\* C4: a thread inside try_upgrade, or holding the read lock after a busy
\* try_upgrade, excludes every other writer; a busy return leaves the caller
\* holding what it held, leaves the flag clear if the caller had set it and
\* untouched otherwise, and leaves every read holder (unless it is in the
\* middle of its own rollback) counted in the read indicator; the caller's
\* later rdunlock keeps egress <= ingress.
C4_UpgradeRollback ==
    /\ [](\A t \in Threads :
            held[t] = "read" /\ (pc[t] \in TryupgradePcs \/ rolled_back[t] /= "no")
                => \A u \in Others(t) : held[u] /= "write")
    /\ [][\A t \in Threads :
            /\ TryupgradeBusy(t) =>
                /\ via'[t] = via[t]
                /\ IF pc[t] = "tu_release"
                   THEN writers_lock' = RWLOCK_UNLOCKED
                   ELSE writers_lock' = writers_lock
                /\ readers_ingress' - readers_egress'
                       >= Cardinality({u \in Threads :
                              held'[u] = "read" /\ pc'[u] \notin Departed})
            /\ (rwlock_rdunlock(t) /\ rolled_back[t] /= "no") =>
                   readers_egress' <= readers_ingress'
         ]_vars

\* A thread holds the read lock after a try_upgrade that departed, re-arrived
\* and reported busy, while another thread's wrlock has the flag and waits.
C4_Witness ==
    \E t \in Threads : \E u \in Others(t) :
        /\ held[t] = "read" /\ rolled_back[t] = "undone" /\ pc[t] = "idle"
        /\ pc[u] = "wr_load_ingress"

\* C5: when try_upgrade returns success no other thread holds the read lock
\* or the write lock (nor has passed rdlock's check); while another thread
\* holds the read lock the call returns busy; no two threads hold the write
\* lock through try_upgrade.
C5_UpgradeExclusivity ==
    /\ [][\A t \in Threads :
            (rwlock_tryupgrade(t) /\ held'[t] = "write") =>
                \A u \in Others(t) : held'[u] = "none" /\ pc'[u] /= "rd_lower"
         ]_vars
    /\ [][\A t \in Threads :
            (rwlock_tryupgrade(t) /\ pc'[t] = "idle"
                /\ \E u \in Others(t) : held[u] = "read")
                => held'[t] = "read" /\ rolled_back'[t] /= "no"
         ]_vars
    /\ [](\A t \in Threads : \A u \in Others(t) :
            ~(held[t] = "write" /\ via[t] = "tryupgrade"
                /\ held[u] = "write" /\ via[u] = "tryupgrade"))

\* A thread holds the write lock through try_upgrade after another thread
\* held the read lock beside it, and that thread is now spinning in rdlock.
C5_Witness ==
    \E t \in Threads : \E u \in Others(t) :
        /\ held[t] = "write" /\ via[t] = "tryupgrade"
        /\ pc[u] = "rd_spin"
        /\ readers_ingress >= 3

\* A step in which t's wrlock performs its successful compare-and-swap.
WrlockAcquires(t) == wrlock_cas(t) /\ pc'[t] = "wr_load_egress"

\* C6 as stated: no wrlock performs its successful compare-and-swap in a
\* state in which writers_barrier > 0.
C6_NoAcquireWhileRaised ==
    [][\A t \in Threads : WrlockAcquires(t) => writers_barrier = 0]_vars

\* C6 as amended: while writers_barrier > 0 no wrlock call leaves its barrier
\* wait, and a call still in that wait performs no compare-and-swap: the
\* acquisitions made while the barrier is raised are those of calls that had
\* left the wait before it was raised.
C6_NoPassWhileRaised ==
    /\ [][\A t \in Threads :
            (wrlock_barrier(t) /\ pc'[t] = "wr_cas") => writers_barrier = 0]_vars
    /\ [][\A t \in Threads :
            (pc[t] = "wr_barrier" /\ writers_barrier > 0 /\ writers_barrier' > 0)
                => pc'[t] = "wr_barrier"]_vars
    /\ [][\A t \in Threads :
            (WrlockAcquires(t) /\ writers_barrier > 0) => pc[t] = "wr_cas"]_vars

\* A wrlock call waits on the raised barrier although the flag is clear.
C6_Witness ==
    \E t \in Threads :
        pc[t] = "wr_barrier" /\ writers_barrier > 0 /\ writers_lock = RWLOCK_UNLOCKED

\* C7: a wrlock call invoked after a reader's rdlock raised the barrier
\* performs its successful compare-and-swap only after that rdlock call has
\* returned.
C7_StarvedReaderFirst ==
    [][\A t \in Threads : WrlockAcquires(t) => owed[t] = {}]_vars

\* A wrlock call invoked after a reader raised the barrier is waiting, and
\* that reader has passed its check and is about to lower the barrier.
C7_Witness ==
    \E t \in Threads : \E r \in owed[t] :
        pc[t] = "wr_barrier" /\ pc[r] = "rd_lower"

\* C8: when every call has returned and every thread has released what it
\* acquired, the read indicator is empty, the flag clear, the barrier zero.
Quiescent == \A t \in Threads : pc[t] = "idle" /\ held[t] = "none"

C8_Conservation ==
    Quiescent =>
        /\ readers_ingress = readers_egress
        /\ writers_lock = RWLOCK_UNLOCKED
        /\ writers_barrier = 0

\* All threads are done after at least three arrivals.
C8_Witness == Quiescent /\ readers_ingress >= 3

TryrdlockBusy(t) == tryrdlock_depart(t)

TrywrlockBusy(t) == rwlock_trywrlock(t) /\ pc'[t] = "idle" /\ held'[t] = "none"

\* No other thread has taken a step since t's call began (it begins with
\* this step if t is idle).
Solo(t) == pc[t] = "idle" \/ solo = t

\* The four fields when t's call began.
Before(t) == IF pc[t] = "idle" THEN LockState ELSE snap

\* C10 as stated: a busy try_rdlock or try_wrlock that no other thread
\* interleaved leaves each of the four fields with the value it had.
C10_BusyChangesNothing ==
    [][\A t \in Threads :
        ((TryrdlockBusy(t) \/ TrywrlockBusy(t)) /\ Solo(t))
            => LockState' = Before(t)]_vars

\* C10 as amended: such a try_wrlock leaves the four fields as they were;
\* such a try_rdlock leaves writers_barrier and writers_lock as they were and
\* has added exactly 1 to each of readers_ingress and readers_egress.
C10_BusyNetZero ==
    [][\A t \in Threads :
        Solo(t) =>
            /\ TrywrlockBusy(t) => LockState' = Before(t)
            /\ TryrdlockBusy(t) =>
                   LockState' = <<Before(t)[1] + 1, Before(t)[2] + 1,
                                  Before(t)[3], Before(t)[4]>>
      ]_vars

\* A try_rdlock that no other thread interleaved is about to retract.
C10_Witness == \E t \in Threads : solo = t /\ pc[t] = "trd_depart"

(***************************************************************************)
(* The contract checks (SpecContract).                                     *)
(***************************************************************************)
\* A step of t is a call of wrunlock, within the contract or against it.
WrunlockCalled(t) == rwlock_wrunlock(t) \/ wrunlock_misused(t)

\* C11: a wrunlock call whose compare-and-swap finds writers_lock clear fails
\* its assertion and leaves the four fields as they were; one that finds it
\* set clears it, returns, and leaves the other three fields as they were.
C11_WrunlockContract ==
    [][\A t \in Threads :
        WrunlockCalled(t) =>
            IF writers_lock = RWLOCK_UNLOCKED
            THEN pc'[t] = "abort_wrunlock" /\ LockState' = LockState
            ELSE /\ pc'[t] = "idle"
                 /\ writers_lock' = RWLOCK_UNLOCKED
                 /\ UNCHANGED <<readers_ingress, readers_egress, writers_barrier>>
      ]_vars

\* A wrunlock has failed its assertion on a lock whose flag is clear.
C11_Witness ==
    \E t \in Threads : pc[t] = "abort_wrunlock" /\ writers_lock = RWLOCK_UNLOCKED

\* The step ends t's destroy call, by a failed assertion or by returning.
DestroyEnds(t) == rwlock_destroy(t) /\ pc'[t] \in {"abort_destroy", "destroyed"}

\* writers_lock was set or the read indicator non-empty when t's destroy call
\* began (it begins with this step if t is idle).
InUseAtCall(t) ==
    IF pc[t] = "idle"
    THEN writers_lock = RWLOCK_LOCKED \/ readers_ingress # readers_egress
    ELSE in_use[t] = "yes"

\* C12 as stated: destroy modifies no field, and it fails an assertion if and
\* only if the lock was locked or non-empty when the call began.
C12_DestroyContract ==
    [][\A t \in Threads :
        rwlock_destroy(t) =>
            /\ LockState' = LockState
            /\ DestroyEnds(t) => (pc'[t] = "abort_destroy" <=> InUseAtCall(t))
      ]_vars

\* C12 as amended: the same, for a destroy call during which no other
\* thread takes a step.
C12_DestroyContractSolo ==
    [][\A t \in Threads :
        rwlock_destroy(t) =>
            /\ LockState' = LockState
            /\ (DestroyEnds(t) /\ Solo(t))
                   => (pc'[t] = "abort_destroy" <=> InUseAtCall(t))
      ]_vars

\* A destroy call that no other thread interleaved is about to fail its
\* second assertion, on a lock that was in use when the call began.
C12_Witness ==
    \E t \in Threads :
        /\ pc[t] = "ds_load_ingress" /\ solo = t /\ in_use[t] = "yes"
        /\ egress_seen[t] # readers_ingress

(***************************************************************************)
(* One thread alone (SpecSingle).                                          *)
(***************************************************************************)
\* The steps a thread alone never has to take: rdlock's retraction, spin,
\* raise and lower, try_rdlock's retraction, the roll-back of try_upgrade and
\* of try_wrlock, wrlock's wait at the barrier.
NeverAlone == {"rd_depart", "rd_spin", "rd_raise", "rd_arrive", "rd_lower", "trd_depart",
               "tu_arrive", "tu_release", "tw_release", "wr_barrier"}

\* An upper bound of the atomic steps a call at this label has left when
\* every wait ends at its first test.
StepsLeft(label) ==
    CASE label \in {"idle", "destroyed"} -> 0
      [] label \in {"rd_check", "trd_check", "wr_load_ingress", "tw_load_ingress",
                    "tu_load_ingress", "dg_release", "ds_load_ingress"} -> 1
      [] label \in {"wr_load_egress", "tw_load_egress", "tu_load_egress",
                    "ds_load_egress"} -> 2
      [] label \in {"wr_cas", "tw_cas", "tu_depart"} -> 3
      [] label = "tu_cas" -> 4
      [] OTHER -> 5

\* C13: a thread alone never fails an assertion and never reaches a step
\* that retracts, spins or rolls back; whenever it is inside a call it has a
\* step that changes the state, its compare-and-swap finds the flag clear and
\* its emptiness test the indicator empty; and each of its steps inside a
\* call brings the call nearer to its return.
C13_SingleThreadRuns ==
    /\ [](\A t \in {1} :
            /\ pc[t] \notin Aborted \cup NeverAlone
            /\ pc[t] \in {"wr_cas", "tw_cas", "tu_cas"} => writers_lock = RWLOCK_UNLOCKED
            /\ pc[t] \in {"wr_load_ingress", "tw_load_ingress", "tu_load_ingress",
                          "ds_load_ingress"}
                   => read_indicator_isempty(egress_seen[t], readers_ingress)
            /\ pc[t] \notin {"idle", "destroyed"} => ENABLED <<NextSingle>>_vars)
    /\ [][\A t \in {1} :
            pc[t] # "idle" => StepsLeft(pc'[t]) < StepsLeft(pc[t])]_vars

\* The lock was destroyed after two shared accesses had been taken and released.
C13_Witness ==
    /\ pc[1] = "destroyed"
    /\ readers_ingress = readers_egress
    /\ readers_ingress >= 2

(***************************************************************************)
(* Termination of the try operations (Spec).                               *)
(***************************************************************************)
TryPcs == TryrdlockPcs \cup TryupgradePcs \cup TrywrlockPcs

\* A step of t's try_rdlock, try_upgrade or try_wrlock call.
TryStep(t) == rwlock_tryrdlock(t) \/ rwlock_tryupgrade(t) \/ rwlock_trywrlock(t)

\* An upper bound of the atomic steps a try call at this label has left.
TryStepsLeft(label) ==
    CASE label = "idle" -> 0
      [] label \in {"trd_depart", "tw_release", "tu_release"} -> 1
      [] label \in {"trd_check", "tw_load_ingress", "tu_arrive"} -> 2
      [] label \in {"tw_load_egress", "tu_load_ingress"} -> 3
      [] label \in {"tw_cas", "tu_load_egress"} -> 4
      [] label = "tu_depart" -> 5
      [] label = "tu_cas" -> 6
      [] OTHER -> 7

\* C14: whatever the other threads do, a thread inside a try call has a step
\* of that call to take (the arrival of try_upgrade's roll-back excepted when
\* the model's MaxIngress arrivals are used up), no step of the call leaves
\* it at the same place, and each step of the call strictly lowers the number
\* of steps it has left: a try_rdlock returns within 3 atomic steps, a
\* try_wrlock within 5, a try_upgrade within 7.
C14_TryNeverSpins ==
    /\ [](\A t \in Threads :
            pc[t] \in TryPcs =>
                /\ ~ENABLED (TryStep(t) /\ pc'[t] = pc[t])
                /\ \/ ENABLED TryStep(t)
                   \/ pc[t] = "tu_arrive" /\ readers_ingress = MaxIngress)
    /\ [][\A t \in Threads :
            TryStep(t) =>
                /\ TryStepsLeft(pc'[t]) < 7
                /\ pc[t] # "idle" => TryStepsLeft(pc'[t]) < TryStepsLeft(pc[t])]_vars

\* A try_wrlock that took the flag found readers inside and is about to give
\* the flag back, while another thread holds shared access.
C14_Witness ==
    \E t \in Threads :
        /\ pc[t] = "tw_release"
        /\ \E u \in Others(t) : held[u] = "read" /\ pc[u] = "idle"

(***************************************************************************)
(* The read indicator (Spec).                                              *)
(***************************************************************************)
\* C15 as stated: readers_egress never exceeds readers_ingress.
C15_EgressAtMostIngress == readers_egress <= readers_ingress

\* Inside the roll-back of a try_upgrade, after its depart and before its
\* re-arrival, while a rejected rdlock has retracted: the two counters meet.
C15_Witness ==
    \E t \in Threads :
        /\ pc[t] = "tu_arrive"
        /\ readers_egress = readers_ingress
        /\ \E u \in Others(t) : pc[u] = "rd_spin"

\* t holds shared access: it holds a read lock and is in no call, or its
\* try_upgrade call is bound to report busy (it has found readers inside and
\* is rolling back).
HoldsShared(t) ==
    /\ held[t] = "read"
    /\ pc[t] \in {"idle", "tu_arrive", "tu_release"}

\* C16 as stated: when the two counters are equal no thread holds shared
\* access, a try_upgrade bound to report busy counting as holding it.
C16_EmptyMeansNoReader ==
    readers_egress = readers_ingress => \A t \in Threads : ~HoldsShared(t)

\* C16 as amended: when the two counters are equal, the only threads that
\* hold a read lock are inside try_upgrade between its depart and its
\* re-arrival or promotion; such a thread has taken writers_lock, which stays
\* set, so no other thread's emptiness test counts and no writer is admitted.
C16_EmptyMeansNoCountedReader ==
    /\ readers_egress = readers_ingress =>
           \A t \in Threads : held[t] = "read" => pc[t] \in Departed
    /\ \A t \in Threads :
           pc[t] \in Departed =>
               /\ writers_lock = RWLOCK_LOCKED
               /\ \A u \in Others(t) :
                      /\ held[u] # "write"
                      /\ pc[u] \notin Departed
                             \cup {"wr_load_egress", "wr_load_ingress", "tw_load_egress",
                                   "tw_load_ingress", "tw_release", "tu_release", "dg_release"}

\* The counters are equal while a try_upgrade that found another reader
\* inside has departed and not yet re-arrived.
C16_Witness ==
    \E t \in Threads :
        /\ pc[t] = "tu_arrive" /\ held[t] = "read"
        /\ readers_egress = readers_ingress
        /\ \E u \in Others(t) : pc[u] = "idle" /\ held[u] = "none"

(***************************************************************************)
(* The writers barrier (Spec).                                             *)
(***************************************************************************)
\* t's rdlock call returns with this step.
RdlockReturns(t) == rwlock_rdlock(t) /\ pc'[t] = "idle"

\* C17: writers_barrier is the number of rdlock calls in progress that have
\* raised it and not yet lowered it.  A call raises only if it has not
\* raised yet; it lowers only if it has raised, as its last step, having
\* arrived and found the flag clear, with no writer inside; a call that has
\* raised does not return without lowering.  Only these two steps of rdlock
\* change writers_barrier.
C17_BarrierAccounting ==
    /\ [](/\ writers_barrier = Cardinality(Starved)
          /\ writers_barrier >= 0
          /\ \A t \in Threads :
                pc[t] = "rd_lower" =>
                    /\ barrier_raised[t]
                    /\ readers_ingress > readers_egress
                    /\ \A u \in Others(t) : held[u] # "write")
    /\ [][/\ \A t \in Threads :
                /\ rdlock_raise(t) => ~barrier_raised[t]
                /\ rdlock_lower(t) => barrier_raised[t] /\ held'[t] = "read"
                /\ RdlockReturns(t) => (barrier_raised[t] <=> rdlock_lower(t))
          /\ writers_barrier' # writers_barrier =>
                \E t \in Threads :
                    \/ rdlock_raise(t) /\ writers_barrier' = writers_barrier + 1
                    \/ rdlock_lower(t) /\ writers_barrier' = writers_barrier - 1
         ]_vars

\* A reader that raised the barrier has acquired and is about to lower it,
\* while a wrlock call waits at the barrier.
C17_Witness ==
    \E t \in Threads :
        /\ pc[t] = "rd_lower" /\ writers_barrier = 1
        /\ \E u \in Others(t) : pc[u] = "wr_barrier"

(***************************************************************************)
(* Progress (SpecFairRW, SpecFairRWTry).                                   *)
(***************************************************************************)
\* C18 as stated: every rdlock call eventually returns.
C18_RdlockReturns ==
    \A t \in Threads : (pc[t] \in RdlockPcs) ~> (pc[t] = "idle" /\ held[t] = "read")

\* C18 as amended: every rdlock call that has raised the barrier eventually
\* returns.
C18_RaisedRdlockReturns ==
    \A t \in Threads :
        (pc[t] \in RdlockPcs /\ barrier_raised[t]) ~> (pc[t] = "idle" /\ held[t] = "read")

\* A reader that has raised the barrier polls the flag, which a writer holds.
C18_Witness ==
    \E t \in Threads :
        /\ pc[t] = "rd_spin" /\ barrier_raised[t]
        /\ writers_lock = RWLOCK_LOCKED
        /\ \E u \in Others(t) : held[u] = "write"

\* t's wrlock call holds the flag and waits for the readers to leave.
WrlockWaits(t) == pc[t] \in {"wr_load_egress", "wr_load_ingress"}

\* C19 as stated: a wrlock call that has acquired writers_lock eventually
\* returns (every holder of shared access gives it back, by fairness).
C19_WrlockReturns ==
    \A t \in Threads : WrlockWaits(t) ~> (pc[t] = "idle" /\ held[t] = "write")

\* C19 as amended: it eventually returns unless try_rdlock calls keep
\* arriving for ever.
C19_WrlockReturnsUnlessTried ==
    \/ []<>(\E u \in Threads : pc[u] \in TryrdlockPcs)
    \/ \A t \in Threads : WrlockWaits(t) ~> (pc[t] = "idle" /\ held[t] = "write")

\* A wrlock call that holds the flag is about to find a reader inside, who
\* holds shared access since before the flag was set.
C19_Witness ==
    \E t \in Threads :
        /\ pc[t] = "wr_load_ingress"
        /\ egress_seen[t] # readers_ingress
        /\ \E u \in Others(t) : held[u] = "read" /\ pc[u] = "idle"

(***************************************************************************)
(* Who is counted by the read indicator (Spec).                            *)
(***************************************************************************)
\* t has posted an arrival that no depart has cancelled yet: it is between
\* the arrival and the end of a call that arrives, or it holds a read lock
\* and has not departed inside try_upgrade.
Counted(t) ==
    \/ pc[t] \in {"rd_check", "rd_depart", "rd_lower", "trd_check", "trd_depart",
                  "dg_release", "tu_release"}
    \/ held[t] = "read" /\ pc[t] \in {"idle", "tu_cas", "tu_depart"}

\* t waits in the inner loop of rdlock, polling writers_lock.
InSpinLoop(t) == pc[t] \in {"rd_spin", "rd_raise"}

\* t has set writers_lock and still has it: it holds the write lock, or its
\* wrlock or try_wrlock call tests the read indicator.
HasFlag(t) ==
    \/ held[t] = "write" /\ pc[t] = "idle"
    \/ pc[t] \in {"wr_load_egress", "wr_load_ingress", "tw_load_egress", "tw_load_ingress"}

ReadsBarrier(t) == trywrlock_barrier(t) \/ tryupgrade_barrier(t)

\* C21: a try_wrlock or try_upgrade call that reads writers_barrier > 0
\* returns busy with that step: it never reaches its compare-and-swap, the
\* four fields are as they were, and the caller holds what it held (a
\* try_upgrade caller is still counted in the read indicator).
C21_BarrierRefuses ==
    [][\A t \in Threads :
        (ReadsBarrier(t) /\ writers_barrier > 0)
            => /\ pc'[t] = "idle"
               /\ LockState' = LockState
               /\ held'[t] = held[t]
               /\ held[t] = "read" => rolled_back'[t] = "refused"
      ]_vars

\* The barrier is raised while one thread holds the read lock and has just
\* been refused by try_upgrade, the flag being clear.
C21_Witness ==
    \E t \in Threads :
        /\ writers_barrier > 0 /\ writers_lock = RWLOCK_UNLOCKED
        /\ pc[t] = "idle" /\ held[t] = "read" /\ rolled_back[t] = "refused"

\* A step of t is a poll of rdlock's inner spin loop that finds the flag set.
PollsLocked(t) == rdlock_spin(t) /\ writers_lock = RWLOCK_LOCKED

\* C22: within one rdlock call the patience counter changes only by +1, on
\* an inner-loop poll that finds writers_lock set, and every such poll
\* counts (it is kept when the call loops back to re-arrive); the call
\* raises the barrier only when the counter exceeds the threshold, so a call
\* whose counter is at most the threshold has not raised it.
C22_PatienceThreshold ==
    /\ [][\A t \in Threads :
            (pc[t] \in RdlockPcs /\ pc'[t] \in RdlockPcs)
                => /\ PollsLocked(t) => cnt'[t] = cnt[t] + 1
                   /\ ~PollsLocked(t) => cnt'[t] = cnt[t]]_vars
    /\ [][\A t \in Threads :
            rdlock_raise(t) => cnt[t] > RWLOCK_MAX_READER_PATIENCE]_vars
    /\ [](\A t \in Threads :
            (pc[t] \in RdlockPcs /\ cnt[t] <= RWLOCK_MAX_READER_PATIENCE)
                => ~barrier_raised[t] /\ pc[t] /= "rd_raise")

\* An rdlock call rejected a second time is about to retract its arrival: it
\* still carries the polls of its first wait, as many as the threshold, and
\* has not raised the barrier.
C22_Witness ==
    \E t \in Threads :
        /\ pc[t] = "rd_depart" /\ cnt[t] = RWLOCK_MAX_READER_PATIENCE
        /\ ~barrier_raised[t] /\ writers_barrier = 0

\* A step of t belongs to the read-indicator wait of wrlock.
WaitsUntilEmpty(t) ==
    wait_until_empty_load_egress(t) \/ wait_until_empty_load_ingress(t)

\* C23: a step of rdunlock adds 1 to readers_egress and leaves the other
\* three fields as they were; no step of try_rdlock changes writers_lock or
\* writers_barrier; no step of wrlock, try_wrlock or wrunlock changes
\* readers_ingress, readers_egress or writers_barrier; no step of wrlock's
\* read-indicator wait changes any of the four fields.
C23_FrameConditions ==
    [][\A t \in Threads :
        /\ rwlock_rdunlock(t) =>
               /\ readers_egress' = readers_egress + 1
               /\ UNCHANGED <<readers_ingress, writers_barrier, writers_lock>>
        /\ rwlock_tryrdlock(t) => UNCHANGED <<writers_lock, writers_barrier>>
        /\ (rwlock_wrlock(t) \/ rwlock_trywrlock(t) \/ rwlock_wrunlock(t)) =>
               UNCHANGED <<readers_ingress, readers_egress, writers_barrier>>
        /\ WaitsUntilEmpty(t) => LockState' = LockState
      ]_vars

\* A wrlock call is in its read-indicator wait while another thread holds the
\* read lock: the writer's polls and the holder's rdunlock come next.
C23_Witness ==
    \E t \in Threads : \E r \in Others(t) :
        /\ pc[t] = "wr_load_egress" /\ writers_lock = RWLOCK_LOCKED
        /\ pc[r] = "idle" /\ held[r] = "read"
        /\ readers_ingress = readers_egress + 1

(***************************************************************************)
(* The counters where they wrap (SpecModular).                             *)
(***************************************************************************)
\* C15 as amended: readers_egress stays behind readers_ingress in the
\* counters' arithmetic: their difference is the number of threads whose
\* arrival no depart has cancelled, at most the number of threads.
C15_EgressBehindIngress ==
    /\ Added(readers_ingress, readers_egress) = Cardinality({t \in Threads : Counted(t)})
    /\ Added(readers_ingress, readers_egress) <= NThreads

\* readers_ingress has wrapped ahead of readers_egress while a try_upgrade is
\* inside its roll-back, after its depart and before its re-arrival, and
\* another thread holds the read lock.
C15_WitnessWrapped ==
    \E t \in Threads :
        /\ pc[t] = "tu_arrive"
        /\ readers_ingress < readers_egress
        /\ \E u \in Others(t) : held[u] = "read" /\ pc[u] = "idle"

(***************************************************************************)
(* The counters (SpecWrap).                                                *)
(***************************************************************************)
\* What the returning rdlock call, the try_upgrade call that finishes its
\* roll-back, has added to the counters.
RdlockAddsUp(t) ==
    (RdlockReturns(t) /\ tally[t] # Untallied)
        => /\ tally[t].arrived = tally[t].rejected + 1
           /\ tally[t].departed = tally[t].rejected

RollbackAddsUp(t) ==
    tryupgrade_release(t) => tally[t].arrived = 1 /\ tally[t].departed = 1

\* C24 as stated: no step lowers readers_ingress or readers_egress, and a
\* step that changes one of them raises it by 1; an rdlock call rejected k
\* times has added k+1 to readers_ingress and k to readers_egress when it
\* returns, a try_upgrade that rolls back 1 to each.
C24_CountersOnlyGrow ==
    /\ [][/\ readers_ingress' \in {readers_ingress, readers_ingress + 1}
          /\ readers_egress' \in {readers_egress, readers_egress + 1}]_vars
    /\ [][\A t \in Threads : RdlockAddsUp(t) /\ RollbackAddsUp(t)]_vars

\* C24 as amended: a step that changes readers_ingress or readers_egress adds
\* 1 to it in the counter's arithmetic, so the counter drops only from its
\* largest value to 0; an rdlock call rejected k times has made k+1 such
\* additions to readers_ingress and k to readers_egress when it returns, a
\* try_upgrade that rolls back one to each.
C24_CountersGrowModulo ==
    /\ [][/\ readers_ingress' \in {readers_ingress, (readers_ingress + 1) % counter_mod}
          /\ readers_egress' \in {readers_egress, (readers_egress + 1) % counter_mod}]_vars
    /\ [][/\ readers_ingress' < readers_ingress =>
                 readers_ingress = counter_mod - 1 /\ readers_ingress' = 0
          /\ readers_egress' < readers_egress =>
                 readers_egress = counter_mod - 1 /\ readers_egress' = 0]_vars
    /\ [][\A t \in Threads : RdlockAddsUp(t) /\ RollbackAddsUp(t)]_vars

\* An rdlock call rejected twice has arrived a third time after
\* readers_ingress wrapped, and another thread's try_upgrade has departed and
\* is about to roll back.
C24_Witness ==
    \E t \in Threads : \E u \in Others(t) :
        /\ pc[t] = "rd_check"
        /\ tally[t] = [arrived |-> 3, departed |-> 2, rejected |-> 2]
        /\ readers_ingress < readers_egress
        /\ pc[u] = "tu_arrive"

(***************************************************************************)
(* The two loads of the emptiness check (SpecOperands).                    *)
(***************************************************************************)
\* A step of t is the second load of read_indicator_isempty, made while t has
\* writers_lock, and the comparison answers "empty".
AnswersEmpty(t) ==
    /\ \/ wait_until_empty_load_ingress(t)
       \/ trywrlock_load_ingress(t)
       \/ tryupgrade_load_ingress(t)
    /\ read_indicator_isempty(egress_seen[t], second_loaded)

WritesOfDeparted(mode) ==
    {j \in 2..Len(mem["data"]) :
        /\ mem["data"][j].val.as = mode
        /\ held[mem["data"][j].val.by] # mode}

\* A step in which t's wrlock finds the read indicator empty and returns.
FindsEmpty(t) == weak_wait_until_empty_load_ingress(t) /\ held'[t] = "write"

\* A step in which t's rdlock reads writers_lock as cleared by a wrunlock.
FindsCleared(t) ==
    weak_rdlock_check(t) /\ held'[t] = "read" /\ view'[t]["writers_lock"] > 1

\* (a) a writer that finds the read indicator empty knows every write that a
\*     reader made before the rdunlock it has performed;
ObservesReaders ==
    [][\A t \in Threads :
        FindsEmpty(t) => \A j \in WritesOfDeparted("read") : view'[t]["data"] >= j]_vars

\* (b) a reader that finds writers_lock cleared by a wrunlock knows every
\*     write that writer knew when it released;
ObservesWriter ==
    [][\A t \in Threads :
        FindsCleared(t) =>
            LET i == view'[t]["writers_lock"]
            IN  view'[t]["data"] >= mem["writers_lock"][i].view["data"]]_vars

\* (c) no thread holds the read lock while another holds the write lock.
StillExcludes ==
    [](\A w \in Threads : \A r \in Others(w) :
            ~(held[w] = "write" /\ held[r] = "read"))

\* C26: with release fetch-adds, acquire loads and acquire-release
\* compare-and-swaps and nothing stronger, (a), (b) and (c) hold.
C26_AcquireReleaseSuffices == ObservesReaders /\ ObservesWriter /\ StillExcludes

====
